---- MODULE Spec2Model ----
(***************************************************************************)
(* Model of the RAID simulator engine of src/SimRaid2.py (class            *)
(* RAIDSimulator): write_data, simulate_failure_and_recovery, the XOR and  *)
(* GF(2^8) parity helpers.                                                 *)
(*                                                                         *)
(* A block is a Python string, modelled as the sequence of its character    *)
(* codes: "A" is <<65>>, the failed marker "X" is <<88>>, the padding "_"   *)
(* is <<95>>, "P(03)" is <<80,40,48,51,41>>.  Disks are indexed from 0 as   *)
(* in the source; the rows of a disk are a TLA+ sequence, so the source's   *)
(* block_idx b is row b + 1.                                                *)
(***************************************************************************)
EXTENDS Integers, Sequences, FiniteSets, TLC

VARIABLES raid_level, num_disks, disks,   \* RAIDSimulator fields
          op, arg, err, pre, nops,        \* the last call, the disks before it
          clean, pre_clean,               \* only write_data has changed the disks (before it)
          gf_pc, gf_a, gf_b, gf_res       \* the GF(2^8) helpers applied on their own

vars == <<raid_level, num_disks, disks, op, arg, err, pre, nops, clean, pre_clean,
          gf_pc, gf_a, gf_b, gf_res>>

raidVars == <<raid_level, num_disks, disks, op, arg, err, pre, nops, clean, pre_clean>>
gfVars == <<gf_pc, gf_a, gf_b, gf_res>>

----------------------------------------------------------------------------
(* Bounds of the model *)

MaxOps == 3
MaxWriteLen == 2
MaxFailLen == 2

\* input symbols: 'A', 'X', '_' and the unprintable byte 0x80
Symbols == {65, 88, 95, 128}

\* (raid_level, num_disks) pairs the arrays are constructed with
Configs == {<<"0", 2>>, <<"1", 2>>, <<"1", 3>>, <<"5", 3>>, <<"6", 4>>, <<"10", 4>>}

MAX_BLOCKS_PER_DISK == 100

\* constructor arguments tried: num_disks in -1..MaxNewDisks, raid_level a supported
\* level or another string
MaxNewDisks == 34
NewLevels == {"0", "1", "5", "6", "10", "2", "01", ""}

----------------------------------------------------------------------------
(* Python integer and string primitives *)

\* a ^ b on non-negative Python ints (unbounded width)
RECURSIVE BitXor(_, _)
BitXor(a, b) ==
    IF a = 0 THEN b
    ELSE IF b = 0 THEN a
    ELSE ((a + b) % 2) + 2 * BitXor(a \div 2, b \div 2)

RECURSIVE XorAll(_)
XorAll(s) == IF s = <<>> THEN 0 ELSE BitXor(Head(s), XorAll(Tail(s)))

\* one uppercase hex digit as a character code
HexChar(d) == IF d < 10 THEN 48 + d ELSE 55 + d

RECURSIVE HexDigits(_)
HexDigits(v) == IF v < 16 THEN <<HexChar(v)>>
                ELSE Append(HexDigits(v \div 16), HexChar(v % 16))

\* hex(v)[2:].upper().zfill(2), and equally f"{v:02X}"
Hex2(v) == IF v < 16 THEN <<48>> \o HexDigits(v) ELSE HexDigits(v)

HexVal(c) == IF c >= 48 /\ c <= 57 THEN c - 48
             ELSE IF c >= 65 /\ c <= 70 THEN c - 55
             ELSE c - 87

\* int(s, 16)
RECURSIVE ParseHex(_)
ParseHex(s) == IF s = <<>> THEN 0
               ELSE 16 * ParseHex(SubSeq(s, 1, Len(s) - 1)) + HexVal(s[Len(s)])

\* int(block[2:-1], 16)
ParityValue(block) == ParseHex(SubSeq(block, 3, Len(block) - 1))

X == <<88>>
PAD == <<95>>
Chr(v) == <<v>>
PBlock(h) == <<80, 40>> \o h \o <<41>>
QBlock(h) == <<81, 40>> \o h \o <<41>>

StartsWithP(block) == Len(block) >= 2 /\ block[1] = 80 /\ block[2] = 40
StartsWithQ(block) == Len(block) >= 2 /\ block[1] = 81 /\ block[2] = 40
IsMarker(block) == block = X \/ block = PAD

\* ord(block) raises TypeError unless block is a single character
OrdRaises(block) == Len(block) # 1
Ord(block) == block[1]

\* str.isprintable() on the code points 0..255
PrintableChar(c) == /\ c >= 32
                    /\ ~(c >= 127 /\ c <= 160)
                    /\ c # 173
IsPrintable(block) == \A i \in 1..Len(block) : PrintableChar(block[i])

----------------------------------------------------------------------------
(* GF(2^8) helpers *)

RECURSIVE gf_mult_loop(_, _, _, _)
gf_mult_loop(a, b, result, rounds) ==
    IF rounds = 0 THEN result
    ELSE LET r2 == IF b % 2 = 1 THEN BitXor(result, a) ELSE result
             hi_bit_set == (a \div 128) % 2 = 1
             a2 == IF hi_bit_set THEN BitXor(2 * a, 29) ELSE 2 * a
         IN gf_mult_loop(a2, b \div 2, r2, rounds - 1)

\* the loop run for seven rounds: the top bit of b is never read
gf_mult_seven_rounds(a, b) == gf_mult_loop(a, b, 0, 7)

gf_mult(a, b) == gf_mult_loop(a, b, 0, 8)

\* for b in range(1, 256): if self.gf_mult(a, b) == 1: return b -- else 0
gf_inverse_search(a) ==
    LET found == {b \in 1..255 : gf_mult(a, b) = 1}
    IN IF found = {} THEN 0 ELSE CHOOSE b \in found : \A c \in found : b <= c

\* gf_inverse on the bytes, evaluated once
gf_inverse_of_byte == [a \in 0..255 |-> IF a = 0 THEN 0 ELSE gf_inverse_search(a)]

gf_inverse(a) == IF a <= 255 THEN gf_inverse_of_byte[a] ELSE gf_inverse_search(a)

----------------------------------------------------------------------------
(* __init__ *)

\* the checks without the upper limit of level 10
init_raises_unlimited(n, level) ==
    \/ level \notin {"0", "1", "5", "6", "10"}
    \/ level \in {"0", "1"} /\ n < 2
    \/ level = "5" /\ n < 3
    \/ level = "6" /\ n < 4
    \/ level = "10" /\ (n < 4 \/ n % 2 # 0)

\* the ValueError checks of the constructor
init_raises(n, level) ==
    \/ level \notin {"0", "1", "5", "6", "10"}
    \/ level = "0" /\ n < 2
    \/ level = "1" /\ n < 2
    \/ level = "5" /\ n < 3
    \/ level = "6" /\ n < 4
    \/ level = "10" /\ (n < 4 \/ n % 2 # 0 \/ n > 32)

----------------------------------------------------------------------------
(* write_data *)

\* TRUE, for any value v: evaluating it makes TLC compute v in full where it is
\* produced (TLC otherwise defers a value to its first use, and a loop of many
\* iterations then unfolds in one nested evaluation)
Evaluated(v) == v = v

\* blocks that the parity helpers leave out: block in {'_', 'X'}
OrdOrSkip(block) == IF IsMarker(block) THEN 0 ELSE Ord(block)

calculate_p_parity(blocks) ==
    Hex2(XorAll([i \in 1..Len(blocks) |-> OrdOrSkip(blocks[i])]))

\* the weight of a symbol is its position in the stripe plus one
calculate_q_parity(blocks) ==
    Hex2(XorAll([i \in 1..Len(blocks) |->
                   IF IsMarker(blocks[i]) THEN 0 ELSE gf_mult(Ord(blocks[i]), i)]))

stripe_size_of(n, level) ==
    IF level = "5" THEN n - 1 ELSE IF level = "6" THEN n - 2 ELSE n

\* stripe += ['_'] * (stripe_size - len(stripe))
PadStripe(stripe, size) ==
    [i \in 1..size |-> IF i <= Len(stripe) THEN stripe[i] ELSE PAD]

\* the inner loop without the padding of a short stripe: a disk past the last
\* symbol gets no block
write_stripe_unpadded(d, stripe, n, level) ==
    LET stripe_num == Len(d[0])
        parity_pos == stripe_num % n
        q_parity_pos == (parity_pos + 1) % n
        isQ(j) == level = "6" /\ j = q_parity_pos
        data_index(j) == Cardinality({k \in 0..(j - 1) : k # parity_pos /\ ~isQ(k)})
    IN [j \in 0..(n - 1) |->
          IF j = parity_pos THEN Append(d[j], PBlock(calculate_p_parity(stripe)))
          ELSE IF isQ(j) THEN Append(d[j], QBlock(calculate_q_parity(stripe)))
          ELSE IF stripe[data_index(j) + 1] = PAD THEN d[j]
          ELSE Append(d[j], stripe[data_index(j) + 1])]

\* the inner loop over disk_idx: one row appended to every disk
write_stripe(d, stripe, n, level) ==
    LET stripe_num == Len(d[0])
        parity_pos == stripe_num % n
        q_parity_pos == (parity_pos + 1) % n
        isQ(j) == level = "6" /\ j = q_parity_pos
        data_index(j) == Cardinality({k \in 0..(j - 1) : k # parity_pos /\ ~isQ(k)})
    IN [j \in 0..(n - 1) |->
          IF j = parity_pos THEN Append(d[j], PBlock(calculate_p_parity(stripe)))
          ELSE IF isQ(j) THEN Append(d[j], QBlock(calculate_q_parity(stripe)))
          ELSE Append(d[j], stripe[data_index(j) + 1])]

\* for stripe_start in range(0, len(data_blocks), stripe_size): the stripes lo..hi of
\* the input written one after another, each on the disks the one before left; the
\* range is taken in two halves, the first evaluated before the second starts
RECURSIVE write_stripe_range(_, _, _, _, _, _)
write_stripe_range(d, blocks, lo, hi, n, level) ==
    IF lo > hi THEN d
    ELSE IF lo = hi
    THEN LET size == stripe_size_of(n, level)
             last == IF lo * size < Len(blocks) THEN lo * size ELSE Len(blocks)
             stripe == PadStripe(SubSeq(blocks, (lo - 1) * size + 1, last), size)
         IN write_stripe(d, stripe, n, level)
    ELSE LET mid == (lo + hi) \div 2
             first == write_stripe_range(d, blocks, lo, mid, n, level)
         IN IF Evaluated(first)
            THEN write_stripe_range(first, blocks, mid + 1, hi, n, level)
            ELSE first

write_stripes(d, blocks, n, level) ==
    LET size == stripe_size_of(n, level)
    IN write_stripe_range(d, blocks, 1, (Len(blocks) + size - 1) \div size, n, level)

\* level 0 placing one symbol per disk and dropping the rest of the input
write_raid0_one_round(d, blocks, i, n) ==
    [j \in DOMAIN d |-> IF j < Len(blocks) THEN Append(d[j], blocks[j + 1]) ELSE d[j]]

\* level 0: self.disks[i % self.num_disks].append(block), for the blocks i..hi of the
\* input in order; the range is taken in two halves, the first evaluated before the
\* second starts
RECURSIVE write_raid0_range(_, _, _, _, _)
write_raid0_range(d, blocks, i, hi, n) ==
    IF i > hi THEN d
    ELSE IF i = hi THEN [d EXCEPT ![i % n] = Append(@, blocks[i + 1])]
    ELSE LET mid == (i + hi) \div 2
             first == write_raid0_range(d, blocks, i, mid, n)
         IN IF Evaluated(first) THEN write_raid0_range(first, blocks, mid + 1, hi, n)
            ELSE first

\* for i, block in enumerate(data_blocks), from block i on
write_raid0(d, blocks, i, n) == write_raid0_range(d, blocks, i, Len(blocks) - 1, n)

\* level 1: every block appended to every disk
write_raid1(d, blocks, n) == [j \in 0..(n - 1) |-> d[j] \o blocks]

\* level 10: stripe over the first half, mirror on the second, for the blocks i..hi
\* of the input in order; the range is taken in two halves as at level 0
RECURSIVE write_raid10_range(_, _, _, _, _)
write_raid10_range(d, blocks, i, hi, n) ==
    IF i > hi THEN d
    ELSE IF i = hi
    THEN LET half == n \div 2
             stripe_idx == i % half
         IN [d EXCEPT ![stripe_idx] = Append(@, blocks[i + 1]),
                      ![stripe_idx + half] = Append(@, blocks[i + 1])]
    ELSE LET mid == (i + hi) \div 2
             first == write_raid10_range(d, blocks, i, mid, n)
         IN IF Evaluated(first) THEN write_raid10_range(first, blocks, mid + 1, hi, n)
            ELSE first

\* for i, block in enumerate(data_blocks), from block i on
write_raid10(d, blocks, i, n) == write_raid10_range(d, blocks, i, Len(blocks) - 1, n)

\* the placement of lines 42-78, by level
write_blocks(d, blocks, n, level) ==
    IF level \in {"5", "6"} THEN write_stripes(d, blocks, n, level)
    ELSE IF level = "0" THEN write_raid0(d, blocks, 0, n)
    ELSE IF level = "1" THEN write_raid1(d, blocks, n)
    ELSE write_raid10(d, blocks, 0, n)

\* data_blocks: the input symbols as one-character strings
DataBlocks(data) == [i \in 1..Len(data) |-> Chr(data[i])]

\* write_data without the capacity check
write_data_unchecked(d, data, n, level) ==
    [disks |-> write_blocks(d, DataBlocks(data), n, level), err |-> "none"]

\* write_data with a capacity check that counts the input alone
write_data_counts_input_only(d, data, n, level) ==
    IF Len(data) > MAX_BLOCKS_PER_DISK
    THEN [disks |-> d, err |-> "capacity"]
    ELSE [disks |-> write_blocks(d, DataBlocks(data), n, level), err |-> "none"]

\* write_data keeping only the first stripe_size * 10 symbols of its input
\* (half * 10 at level 10)
write_data_truncated(d, data, n, level) ==
    LET cap == 10 * (IF level = "10" THEN n \div 2 ELSE stripe_size_of(n, level))
        kept == SubSeq(data, 1, IF Len(data) > cap THEN cap ELSE Len(data))
    IN IF Len(d[0]) + Len(data) > MAX_BLOCKS_PER_DISK
       THEN [disks |-> d, err |-> "capacity"]
       ELSE [disks |-> write_blocks(d, DataBlocks(kept), n, level), err |-> "none"]

\* the whole call: the capacity check of lines 30-31, then the placement
write_data(d, data, n, level) ==
    IF Len(d[0]) + Len(data) > MAX_BLOCKS_PER_DISK
    THEN [disks |-> d, err |-> "capacity"]
    ELSE [disks |-> write_blocks(d, DataBlocks(data), n, level), err |-> "none"]

RECURSIVE SeqsUpTo(_, _)
SeqsUpTo(S, k) ==
    IF k = 0 THEN {<<>>}
    ELSE LET shorter == SeqsUpTo(S, k - 1)
         IN shorter \cup {Append(s, x) : s \in {t \in shorter : Len(t) = k - 1}, x \in S}

WriteInputs == SeqsUpTo(Symbols, MaxWriteLen)

WriteData(data) ==
    /\ nops < MaxOps
    /\ LET r == write_data(disks, data, num_disks, raid_level)
       IN /\ disks' = r.disks
          /\ err' = r.err
    /\ op' = "write"
    /\ arg' = data
    /\ pre' = disks
    /\ nops' = nops + 1
    /\ pre_clean' = clean
    /\ UNCHANGED <<raid_level, num_disks, clean, gfVars>>

----------------------------------------------------------------------------
(* simulate_failure_and_recovery *)

InList(x, f) == \E k \in 1..Len(f) : f[k] = x

\* not all(0 <= idx < self.num_disks for idx in failed_indices)
invalid_index(f, n) == \E k \in 1..Len(f) : ~(0 <= f[k] /\ f[k] < n)

mirror_of(idx, n) == IF idx >= n \div 2 THEN idx - n \div 2 ELSE idx + n \div 2

\* level 10 limited by the number of failed disks, the rule of level 5
tolerance_exceeded_by_count(f, n, level) ==
    \/ level = "0"
    \/ level \in {"5", "10"} /\ Len(f) > 1
    \/ level = "6" /\ Len(f) > 2

\* the checks of lines 122-133, made before any disk is touched
tolerance_exceeded(f, n, level) ==
    \/ level = "0"
    \/ level = "5" /\ Len(f) > 1
    \/ level = "6" /\ Len(f) > 2
    \/ level = "10" /\ \E k \in 1..Len(f) : InList(mirror_of(f[k], n), f)

\* the variant that marks every disk of the array, failed or not
mark_every_disk(d, f) == [j \in DOMAIN d |-> [r \in 1..Len(d[0]) |-> X]]

\* self.disks[idx] = ['X'] * len(self.disks[0])
mark_failed(d, f) ==
    [j \in DOMAIN d |-> IF InList(j, f) THEN [r \in 1..Len(d[0]) |-> X] ELSE d[j]]

\* level 1: each failed disk copies disk (idx + 1) % num_disks, in list order
RECURSIVE recover_raid1(_, _, _, _)
recover_raid1(d, f, k, n) ==
    IF k > Len(f) THEN d
    ELSE recover_raid1([d EXCEPT ![f[k]] = d[(f[k] + 1) % n]], f, k + 1, n)

\* level 10 recovering from the next disk, the rule of level 1
recover_raid10_from_next(d, f, k, n) == recover_raid1(d, f, k, n)

\* level 10: each failed disk copies its mirror, in list order
RECURSIVE recover_raid10(_, _, _, _)
recover_raid10(d, f, k, n) ==
    IF k > Len(f) THEN d
    ELSE recover_raid10([d EXCEPT ![f[k]] = d[mirror_of(f[k], n)]], f, k + 1, n)

NONE == 0 - 1
MaxOf(S) == CHOOSE x \in S : \A y \in S : y <= x
CHR_LIMIT == 1114112

\* level 5, one row: the parity branch (lines 153-161) or the data branch (162-172)
raid5_row(d, failed_idx, r, n) ==
    LET parity_pos == (r - 1) % n
        others == {j \in 0..(n - 1) : j # failed_idx}
        b(j) == d[j][r]
        inParity(j) == /\ IsPrintable(b(j))
                       /\ ~StartsWithP(b(j)) /\ ~StartsWithQ(b(j))
                       /\ ~IsMarker(b(j))
        isP(j) == StartsWithP(b(j)) /\ j = parity_pos
        inData(j) == ~isP(j) /\ ~IsMarker(b(j))
    IN IF failed_idx = parity_pos
       THEN [raises |-> \E j \in others : inParity(j) /\ OrdRaises(b(j)),
             block |-> PBlock(Hex2(XorAll([i \in 1..n |->
                          IF (i - 1) \in others /\ inParity(i - 1)
                          THEN Ord(b(i - 1)) ELSE 0])))]
       ELSE [raises |-> \E j \in others : inData(j) /\ OrdRaises(b(j)),
             block |-> Hex2(XorAll([i \in 1..n |->
                          IF (i - 1) \notin others THEN 0
                          ELSE IF isP(i - 1) THEN ParityValue(b(i - 1))
                          ELSE IF inData(i - 1) THEN Ord(b(i - 1))
                          ELSE 0]))]

\* what the loops of the level 6 branches collect from the surviving disks of a row
row_p_val(d, others, r) ==
    LET ps == {j \in others : StartsWithP(d[j][r])}
    IN IF ps = {} THEN NONE ELSE ParityValue(d[MaxOf(ps)][r])

row_q_val(d, others, r) ==
    LET qs == {j \in others : ~StartsWithP(d[j][r]) /\ StartsWithQ(d[j][r])}
    IN IF qs = {} THEN NONE ELSE ParityValue(d[MaxOf(qs)][r])

\* the keys of available_data
row_available(d, others, r) ==
    {j \in others : ~StartsWithP(d[j][r]) /\ ~StartsWithQ(d[j][r]) /\ ~IsMarker(d[j][r])}

row_sum_known(d, avail, r, n) ==
    XorAll([i \in 1..n |-> IF (i - 1) \in avail THEN Ord(d[i - 1][r]) ELSE 0])

row_q_sum_known(d, avail, r, n) ==
    XorAll([i \in 1..n |-> IF (i - 1) \in avail THEN gf_mult(Ord(d[i - 1][r]), i) ELSE 0])

\* level 6, one failed disk, one row (lines 182-244)
raid6_single_row(d, failed_idx, r, n) ==
    LET parity_pos == (r - 1) % n
        q_pos == (parity_pos + 1) % n
        others == {j \in 0..(n - 1) : j # failed_idx}
        avail == row_available(d, others, r)
        ordRaises == \E j \in avail : OrdRaises(d[j][r])
        p_val == row_p_val(d, others, r)
        q_val == row_q_val(d, others, r)
        sum_known == row_sum_known(d, avail, r, n)
        q_sum_known == row_q_sum_known(d, avail, r, n)
        missing_p == BitXor(p_val, sum_known)
        calculated_q == BitXor(q_sum_known, gf_mult(missing_p, failed_idx + 1))
        missing_data == IF calculated_q # q_val
                        THEN gf_mult(BitXor(q_val, q_sum_known), gf_inverse(failed_idx + 1))
                        ELSE missing_p
    IN IF failed_idx = parity_pos
       THEN [raises |-> ordRaises, block |-> PBlock(Hex2(sum_known))]
       ELSE IF failed_idx = q_pos
       THEN [raises |-> ordRaises, block |-> QBlock(Hex2(q_sum_known))]
       ELSE IF ordRaises \/ p_val = NONE \/ q_val = NONE
       THEN [raises |-> TRUE, block |-> X]
       ELSE [raises |-> missing_data >= CHR_LIMIT, block |-> Chr(missing_data)]

\* level 6, two failed disks, one row (lines 254-334)
raid6_dual_row(d, f, failed1, failed2, r, n) ==
    LET parity_pos == (r - 1) % n
        q_pos == (parity_pos + 1) % n
        others == {j \in 0..(n - 1) : ~InList(j, f)}
        avail == row_available(d, others, r)
        ordRaises == \E j \in avail : OrdRaises(d[j][r])
        p_val == row_p_val(d, others, r)
        q_val == row_q_val(d, others, r)
        sum_known == row_sum_known(d, avail, r, n)
        q_sum_known == row_q_sum_known(d, avail, r, n)
        noneRaises == p_val = NONE \/ q_val = NONE
        p_rest == BitXor(p_val, sum_known)
        q_rest == BitXor(q_val, q_sum_known)
        \* case 2
        failed_data_pos == IF failed1 = parity_pos THEN failed2 ELSE failed1
        coeff == failed_data_pos + 1
        missing_data == gf_mult(BitXor(p_rest, gf_mult(q_rest, gf_inverse(coeff))),
                                gf_inverse(BitXor(1, coeff)))
        \* case 3
        a == failed1 + 1
        b == failed2 + 1
        delta == BitXor(1, gf_mult(a, gf_inverse(b)))
        delta_x == BitXor(p_rest, gf_mult(q_rest, gf_inverse(b)))
        delta_y == BitXor(gf_mult(p_rest, gf_inverse(a)), q_rest)
        d1 == gf_mult(delta_x, gf_inverse(delta))
        d2 == gf_mult(delta_y, gf_inverse(delta))
    IN IF ordRaises THEN [raises |-> TRUE, b1 |-> X, b2 |-> X]
       ELSE IF failed1 = parity_pos /\ failed2 = q_pos
       THEN [raises |-> FALSE,
             b1 |-> PBlock(Hex2(sum_known)), b2 |-> QBlock(Hex2(q_sum_known))]
       ELSE IF noneRaises THEN [raises |-> TRUE, b1 |-> X, b2 |-> X]
       ELSE IF failed1 = parity_pos \/ failed2 = parity_pos
       THEN IF failed1 = parity_pos
            THEN [raises |-> missing_data >= CHR_LIMIT,
                  b1 |-> PBlock(Hex2(p_val)), b2 |-> Chr(missing_data)]
            ELSE [raises |-> missing_data >= CHR_LIMIT,
                  b1 |-> Chr(missing_data), b2 |-> PBlock(Hex2(p_val))]
       ELSE [raises |-> FALSE, b1 |-> Hex2(d1), b2 |-> Hex2(d2)]

\* lines 135-348: the marking and the recovery of the level, once the checks passed
\*   "none": returned; "crash": an exception raised by the recovery code itself
\*   (TypeError, IndexError, unpacking ValueError), which leaves the marking in place
recover_disks(d, f, n, level) ==
    LET m == mark_failed(d, f)
        rows == 1..Len(d[0])
        failed1 == IF f[1] <= f[2] THEN f[1] ELSE f[2]
        failed2 == IF f[1] <= f[2] THEN f[2] ELSE f[1]
        r5 == [r \in rows |-> raid5_row(m, f[1], r, n)]
        r6 == [r \in rows |-> raid6_single_row(m, f[1], r, n)]
        r62 == [r \in rows |-> raid6_dual_row(m, f, failed1, failed2, r, n)]
    IN IF level = "1" THEN [disks |-> recover_raid1(m, f, 1, n), err |-> "none"]
       ELSE IF level = "10" THEN [disks |-> recover_raid10(m, f, 1, n), err |-> "none"]
       ELSE IF Len(f) = 0 THEN [disks |-> m, err |-> "crash"]
       ELSE IF level = "5"
       THEN IF \E r \in rows : r5[r].raises
            THEN [disks |-> m, err |-> "crash"]
            ELSE [disks |-> [m EXCEPT ![f[1]] = [r \in rows |-> r5[r].block]],
                  err |-> "none"]
       ELSE IF Len(f) = 1
       THEN IF \E r \in rows : r6[r].raises
            THEN [disks |-> m, err |-> "crash"]
            ELSE [disks |-> [m EXCEPT ![f[1]] = [r \in rows |-> r6[r].block]],
                  err |-> "none"]
       ELSE IF \E r \in rows : r62[r].raises
            THEN [disks |-> m, err |-> "crash"]
            ELSE [disks |-> [[m EXCEPT ![failed1] = [r \in rows |-> r62[r].b1]]
                                EXCEPT ![failed2] = [r \in rows |-> r62[r].b2]],
                  err |-> "none"]

\* the variant that marks the failed disks before it checks the tolerance
simulate_mark_before_check(d, f, n, level) ==
    IF invalid_index(f, n) THEN [disks |-> d, err |-> "invalid_index"]
    ELSE IF tolerance_exceeded(f, n, level)
    THEN [disks |-> mark_failed(d, f), err |-> "tolerance"]
    ELSE recover_disks(d, f, n, level)

\* the tolerance checks made before the index validation
simulate_tolerance_before_index(d, f, n, level) ==
    IF tolerance_exceeded(f, n, level) THEN [disks |-> d, err |-> "tolerance"]
    ELSE IF invalid_index(f, n) THEN [disks |-> d, err |-> "invalid_index"]
    ELSE recover_disks(d, f, n, level)

\* the whole call: the resulting disks and how the call ended
\*   "invalid_index", "tolerance": the ValueErrors of lines 119-133
simulate_failure_and_recovery(d, f, n, level) ==
    IF invalid_index(f, n) THEN [disks |-> d, err |-> "invalid_index"]
    ELSE IF tolerance_exceeded(f, n, level) THEN [disks |-> d, err |-> "tolerance"]
    ELSE recover_disks(d, f, n, level)

FailInputs(n) == SeqsUpTo((0 - 1)..n, MaxFailLen)

Recover(f) ==
    /\ nops < MaxOps
    /\ LET r == simulate_failure_and_recovery(disks, f, num_disks, raid_level)
       IN /\ disks' = r.disks
          /\ err' = r.err
          /\ clean' = (clean /\ r.err \in {"invalid_index", "tolerance"})
    /\ op' = "recover"
    /\ arg' = f
    /\ pre' = disks
    /\ nops' = nops + 1
    /\ pre_clean' = clean
    /\ UNCHANGED <<raid_level, num_disks, gfVars>>

----------------------------------------------------------------------------
(* The simulator: one array, then any calls of write_data and               *)
(* simulate_failure_and_recovery                                            *)

GfIdle == gf_pc = "idle" /\ gf_a = 0 /\ gf_b = 0 /\ gf_res = 0

Init ==
    /\ \E c \in Configs :
          /\ ~init_raises(c[2], c[1])
          /\ raid_level = c[1]
          /\ num_disks = c[2]
          /\ disks = [j \in 0..(c[2] - 1) |-> <<>>]
          /\ pre = [j \in 0..(c[2] - 1) |-> <<>>]
    /\ op = "init"
    /\ arg = <<>>
    /\ err = "none"
    /\ clean = TRUE
    /\ pre_clean = TRUE
    /\ nops = 0
    /\ GfIdle

Next ==
    \/ \E data \in WriteInputs : WriteData(data)
    \/ \E f \in FailInputs(num_disks) : Recover(f)

Spec == Init /\ [][Next]_vars

----------------------------------------------------------------------------
(* The GF(2^8) helpers on their own: gf_mult and gf_inverse applied to every *)
(* pair of bytes                                                             *)

InitGF ==
    /\ raid_level = "6"
    /\ num_disks = 4
    /\ disks = [j \in 0..3 |-> <<>>]
    /\ pre = [j \in 0..3 |-> <<>>]
    /\ op = "init"
    /\ arg = <<>>
    /\ err = "none"
    /\ clean = TRUE
    /\ pre_clean = TRUE
    /\ nops = 0
    /\ gf_pc = "input"
    /\ gf_a \in 0..255
    /\ gf_b \in 0..255
    /\ gf_res = 0

GfMult ==
    /\ gf_pc = "input"
    /\ gf_res' = gf_mult(gf_a, gf_b)
    /\ gf_pc' = "gf_mult"
    /\ UNCHANGED <<gf_a, gf_b, raidVars>>

GfInverse ==
    /\ gf_pc = "input"
    /\ gf_res' = gf_inverse(gf_a)
    /\ gf_pc' = "gf_inverse"
    /\ UNCHANGED <<gf_a, gf_b, raidVars>>

NextGF == GfMult \/ GfInverse

SpecGF == InitGF /\ [][NextGF]_vars

----------------------------------------------------------------------------
(* The constructor on its own: RAIDSimulator(num_disks, raid_level) called   *)
(* with every pair of arguments; arg holds <<raid_level, num_disks>>, and    *)
(* before the call, and after a call that raised, there is no array          *)

InitNew ==
    /\ raid_level = "none"
    /\ num_disks = 0
    /\ disks = <<>>
    /\ pre = <<>>
    /\ op = "new"
    /\ \E level \in NewLevels : \E n \in (0 - 1)..MaxNewDisks : arg = <<level, n>>
    /\ err = "none"
    /\ clean = TRUE
    /\ pre_clean = TRUE
    /\ nops = 0
    /\ GfIdle

New ==
    /\ op = "new"
    /\ op' = "init"
    /\ IF init_raises(arg[2], arg[1])
       THEN /\ err' = "config"
            /\ UNCHANGED <<raid_level, num_disks, disks>>
       ELSE /\ err' = "none"
            /\ num_disks' = arg[2]
            /\ raid_level' = arg[1]
            /\ disks' = [j \in 0..(arg[2] - 1) |-> <<>>]
    /\ UNCHANGED <<arg, pre, nops, clean, pre_clean, gfVars>>

NextNew == New

SpecNew == InitNew /\ [][NextNew]_vars

----------------------------------------------------------------------------
(* The simulator fed with long inputs: writes of up to 101 symbols, every    *)
(* position of an input a different symbol, so that the capacity of 100      *)
(* blocks per disk is met                                                    *)

CapLens == {3, 21, 40, 60, 101}
LongInput(len) == [i \in 1..len |-> 32 + i]
CapInputs == {LongInput(len) : len \in CapLens}
CapFails == {<<0>>, <<0, 1>>, <<0, 3>>}

NextCap ==
    \/ \E data \in CapInputs : WriteData(data)
    \/ \E f \in CapFails : Recover(f)

SpecCap == Init /\ [][NextCap]_vars

----------------------------------------------------------------------------
(* Vocabulary of the properties *)

Rows == 1..Len(disks[0])
AllX(len) == [r \in 1..len |-> X]
IsHexChar(c) == (c >= 48 /\ c <= 57) \/ (c >= 65 /\ c <= 70)

\* the byte a data block stands for: one character, or two hex digits
DataByte(block) ==
    IF Len(block) = 1 THEN block[1]
    ELSE IF Len(block) = 2 /\ IsHexChar(block[1]) /\ IsHexChar(block[2]) THEN ParseHex(block)
    ELSE NONE

\* new holds what old held: the same P value, the same Q value, the same data byte
\* (a '_' in old is padding, which carries no byte)
SameContent(old, new) ==
    IF StartsWithP(old) THEN StartsWithP(new) /\ ParityValue(new) = ParityValue(old)
    ELSE IF StartsWithQ(old) THEN StartsWithQ(new) /\ ParityValue(new) = ParityValue(old)
    ELSE IF old = PAD THEN TRUE
    ELSE DataByte(new) = Ord(old)

Restored(j) ==
    /\ Len(disks[j]) = Len(pre[j])
    /\ \A r \in 1..Len(pre[j]) : SameContent(pre[j][r], disks[j][r])

\* the recovery call just made was within the index range
ValidRecover == op = "recover" /\ ~invalid_index(arg, num_disks)

----------------------------------------------------------------------------
(* C1 *)

\* C1: at level 6, on an array that only write_data has filled, failing any two
\* distinct disks and recovering returns normally and restores in every row the P
\* value, the Q value and the data byte values of both failed disks.
C1_DualFailureRoundTrip ==
    (/\ raid_level = "6" /\ ValidRecover /\ pre_clean
     /\ Len(arg) = 2 /\ arg[1] # arg[2])
    => /\ err = "none"
       /\ Restored(arg[1])
       /\ Restored(arg[2])

----------------------------------------------------------------------------
(* C2 *)

\* C2: at level 5, on an array that only write_data has filled, failing any single
\* disk and recovering returns normally and gives, in every row, the P block stored
\* before (parity rows) or a block encoding the same byte as the data symbol stored
\* before (data rows), whatever the byte values written.
C2_SingleFailureRoundTrip ==
    (raid_level = "5" /\ ValidRecover /\ pre_clean /\ Len(arg) = 1)
    => /\ err = "none"
       /\ Restored(arg[1])

----------------------------------------------------------------------------
(* C3 *)

\* C3: for every a in 1..255, gf_inverse(a) is a b in 1..255 with gf_mult(a, b) = 1.
C3_InverseIsInverse ==
    (gf_pc = "gf_inverse" /\ gf_a \in 1..255)
    => (gf_res \in 1..255 /\ gf_mult(gf_a, gf_res) = 1)

----------------------------------------------------------------------------
(* C4 *)

----------------------------------------------------------------------------
(* C5 *)

EqualLengths == \A i, j \in DOMAIN disks : Len(disks[i]) = Len(disks[j])

\* C5 as stated: after every completed write or recovery, at every level, all disks
\* hold the same number of blocks.
C5_EqualLengthsEveryLevel ==
    (op \in {"write", "recover"} /\ err = "none") => EqualLengths

\* C5 as amended: at levels 1, 5 and 6, after every completed write or recovery and
\* for every input length, all disks hold the same number of blocks.
C5_EqualLengthsMirrorParity ==
    (raid_level \in {"1", "5", "6"} /\ op \in {"write", "recover"} /\ err = "none")
    => EqualLengths

\* a completed recovery at level 5 after a write that did not fill its stripe
C5_Witness ==
    /\ raid_level = "5" /\ op = "recover" /\ err = "none" /\ Len(arg) = 1
    /\ \E r \in Rows : \E j \in DOMAIN disks : disks[j][r] = PAD

----------------------------------------------------------------------------
(* C6 *)

\* no failed disk of the request has its level 1 mirror, disk (idx + 1) mod n, failed
MirrorsAlive == \A k \in 1..Len(arg) : ~InList((arg[k] + 1) % num_disks, arg)

\* C6: at level 1 a recovery request returns exactly when no failed disk has its
\* mirror in the failure set, it then leaves every failed disk with the blocks it
\* held before, and it otherwise ends with the tolerance error.
C6_Raid1MirrorRule ==
    (raid_level = "1" /\ ValidRecover)
    => /\ (err = "none") <=> MirrorsAlive
       /\ MirrorsAlive => \A k \in 1..Len(arg) : disks[arg[k]] = pre[arg[k]]
       /\ ~MirrorsAlive => err = "tolerance"

----------------------------------------------------------------------------
(* C7 *)

\* the symbols of the k-th stripe of the input of the last write, padding excluded
StripeSymbols(k, size) ==
    LET last == IF k * size < Len(arg) THEN k * size ELSE Len(arg)
    IN SubSeq(arg, (k - 1) * size + 1, last)

StripeCount(size) == (Len(arg) + size - 1) \div size

\* C7: at level 5, after any sequence of writes, the P value stored in each row equals
\* the XOR of the byte values of all data symbols written to that row, the symbols
\* 'X' and '_' included, padding excluded.
C7_ParityIsXorOfData ==
    (raid_level = "5" /\ clean /\ op = "write" /\ err = "none")
    => \A k \in 1..StripeCount(num_disks - 1) :
          LET r == Len(pre[0]) + k
              block == disks[(r - 1) % num_disks][r]
          IN /\ StartsWithP(block)
             /\ ParityValue(block) = XorAll(StripeSymbols(k, num_disks - 1))

----------------------------------------------------------------------------
(* C8 *)

\* C8: at level 5, in every state reached by write and recovery calls, each row r
\* (counted from the first row ever written, here from 1) holds exactly one P block,
\* on disk (r - 1) mod num_disks.
C8_OneParityPerRow ==
    raid_level = "5"
    => \A r \in Rows : \A j \in DOMAIN disks :
          StartsWithP(disks[j][r]) <=> j = (r - 1) % num_disks

----------------------------------------------------------------------------
(* C9 *)

\* C9: at level 6, in every state reached by write and recovery calls, each row holds
\* exactly one P block and exactly one Q block, the Q block on the disk after P's.
C9_OnePAndOneQPerRow ==
    raid_level = "6"
    => \A r \in Rows :
          LET ps == {j \in DOMAIN disks : StartsWithP(disks[j][r])}
              qs == {j \in DOMAIN disks : StartsWithQ(disks[j][r])}
          IN /\ Cardinality(ps) = 1
             /\ Cardinality(qs) = 1
             /\ \A pj \in ps : \A qj \in qs : qj = (pj + 1) % num_disks

----------------------------------------------------------------------------
(* C10 *)

Half == num_disks \div 2

\* the symbols of the last write at the input positions i with i mod Half = j, in order
SymbolsFor(j) ==
    LET count == IF Len(arg) > j THEN (Len(arg) - j - 1) \div Half + 1 ELSE 0
    IN [k \in 1..count |-> Chr(arg[(k - 1) * Half + j + 1])]

----------------------------------------------------------------------------
(* C11 *)

\* the failure set of the request holds both members of a mirror pair i, i + half
BothOfAPair == \E i \in 0..(Half - 1) : InList(i, arg) /\ InList(i + Half, arg)

\* C11: at level 10 a recovery request is rejected with the tolerance error exactly
\* when its failure set contains both i and i + half for some i < half; every other
\* request returns normally and leaves every disk with the block sequence it had.
C11_Raid10PairRule ==
    (raid_level = "10" /\ ValidRecover)
    => /\ (err = "tolerance") <=> BothOfAPair
       /\ ~BothOfAPair => (err = "none" /\ disks = pre)

\* two disks of different pairs failed together, on an array holding data
C11_Witness ==
    /\ raid_level = "10" /\ op = "recover" /\ err = "none"
    /\ Len(arg) = 2 /\ arg[1] # arg[2]
    /\ Len(pre[0]) > 0 /\ Len(pre[1]) > 0

----------------------------------------------------------------------------
(* C12 *)

\* the number of distinct disks named by the request
DistinctFailed == Cardinality({arg[k] : k \in 1..Len(arg)})

\* C12: a level 5 recovery request is rejected with the tolerance error exactly when
\* its failure set names more than one distinct disk, a level 6 request exactly when
\* it names more than two; a request within the limit is never rejected for tolerance.
C12_DistinctDiskLimit ==
    (raid_level \in {"5", "6"} /\ ValidRecover)
    => ((err = "tolerance") <=> DistinctFailed > (IF raid_level = "5" THEN 1 ELSE 2))

----------------------------------------------------------------------------
(* C13 *)

\* the request names an index outside [0, num_disks)
OutOfRange == \E k \in 1..Len(arg) : arg[k] < 0 \/ arg[k] >= num_disks

\* C13: a recovery request naming any index outside [0, num_disks) ends with the
\* invalid-index error and modifies no disk, also when its other indices are valid.
C13_InvalidIndexRejected ==
    (op = "recover" /\ OutOfRange) => (err = "invalid_index" /\ disks = pre)

\* a request with a valid and an invalid index, on an array holding data
C13_Witness ==
    /\ op = "recover" /\ err = "invalid_index" /\ Len(pre[0]) > 0
    /\ \E k \in 1..Len(arg) : arg[k] >= 0 /\ arg[k] < num_disks
    /\ \E k \in 1..Len(arg) : arg[k] >= num_disks

----------------------------------------------------------------------------
(* C14 *)

\* C14: in every state reached by writes and recoveries, at every level, every disk
\* holds at most 100 blocks.
C14_AtMost100Blocks == \A j \in DOMAIN disks : Len(disks[j]) <= 100

\* a second write has filled a disk to exactly 100 blocks
C14_Witness ==
    /\ op = "write" /\ err = "none" /\ Len(pre[0]) > 0
    /\ \E j \in DOMAIN disks : Len(disks[j]) = 100

----------------------------------------------------------------------------
(* C15 *)

\* how many input positions i < len have i mod m = j
CountFor(len, m, j) == IF len > j THEN (len - j - 1) \div m + 1 ELSE 0

\* the length disk j would have after the last write, were it carried out
WouldBeLen(j) ==
    IF raid_level = "1" THEN Len(pre[j]) + Len(arg)
    ELSE IF raid_level = "0" THEN Len(pre[j]) + CountFor(Len(arg), num_disks, j)
    ELSE IF raid_level = "10" THEN Len(pre[j]) + CountFor(Len(arg), Half, j % Half)
    ELSE Len(pre[j]) + StripeCount(num_disks - (IF raid_level = "6" THEN 2 ELSE 1))

\* C15: a write fails with the capacity error whenever the length of some disk after
\* the write would exceed 100, and a write that fails so leaves every disk as it was.
C15_CapacityRejected ==
    op = "write"
    => /\ (\E j \in DOMAIN disks : WouldBeLen(j) > 100) => err = "capacity"
       /\ err = "capacity" => disks = pre
       /\ err = "none" => \A j \in DOMAIN disks : Len(disks[j]) = WouldBeLen(j)

\* a write rejected on an array holding data, whose input alone would have fitted
C15_Witness ==
    /\ op = "write" /\ err = "capacity"
    /\ Len(pre[0]) > 0 /\ Len(arg) <= 100
    /\ \E j \in DOMAIN disks : WouldBeLen(j) > 100

----------------------------------------------------------------------------
(* C16 *)

\* the input cap the claim speaks of
InputCap == 10 * (IF raid_level = "10" THEN Half ELSE stripe_size_of(num_disks, raid_level))

\* at levels 5 and 6, disk j holds a data block in row r
IsDataPosition(j, r) ==
    /\ j # (r - 1) % num_disks
    /\ ~(raid_level = "6" /\ j = (((r - 1) % num_disks) + 1) % num_disks)

\* the disk holding the data block number slot (from 0) of row r
RowDataDisk(r, slot) ==
    CHOOSE j \in DOMAIN disks :
        /\ IsDataPosition(j, r)
        /\ Cardinality({k \in 0..(j - 1) : IsDataPosition(k, r)}) = slot

\* the block in the place where the last write puts its input symbol i (from 0)
StoredBlock(i) ==
    IF raid_level = "0"
    THEN disks[i % num_disks][Len(pre[i % num_disks]) + i \div num_disks + 1]
    ELSE IF raid_level = "1" THEN disks[0][Len(pre[0]) + i + 1]
    ELSE IF raid_level = "10" THEN disks[i % Half][Len(pre[i % Half]) + i \div Half + 1]
    ELSE LET size == stripe_size_of(num_disks, raid_level)
             r == Len(pre[0]) + i \div size + 1
         IN disks[RowDataDisk(r, i % size)][r]

----------------------------------------------------------------------------
(* C17 *)

\* the rule of each level for num_disks
MeetsRule(level, n) ==
    \/ level \in {"0", "1"} /\ n >= 2
    \/ level = "5" /\ n >= 3
    \/ level = "6" /\ n >= 4
    \/ level = "10" /\ n % 2 = 0 /\ n >= 4 /\ n <= 32

\* C17: RAIDSimulator(num_disks, raid_level) succeeds exactly when raid_level is one
\* of '0', '1', '5', '6', '10' and num_disks meets the rule of that level, and then
\* holds num_disks empty disks; every other pair of arguments ends with the
\* configuration error and creates no array.
C17_ConstructorRule ==
    (op = "init" /\ Len(arg) = 2)
    => /\ (err = "none") <=> MeetsRule(arg[1], arg[2])
       /\ err = "none"
          => /\ raid_level = arg[1] /\ num_disks = arg[2]
             /\ disks = [j \in 0..(arg[2] - 1) |-> <<>>]
       /\ err # "none" => (err = "config" /\ disks = <<>> /\ raid_level = "none")

\* level 10 refused for an even number of disks above 32
C17_Witness ==
    /\ op = "init" /\ Len(arg) = 2 /\ err = "config"
    /\ arg[1] = "10" /\ arg[2] > 32 /\ arg[2] % 2 = 0

----------------------------------------------------------------------------
(* C18 *)

IsTwoHexDigits(block) == Len(block) = 2 /\ IsHexChar(block[1]) /\ IsHexChar(block[2])

\* C18: after a completed recovery at level 5 or 6, with one or two failed disks,
\* every block of a failed disk that is not a P or Q block is a string of exactly two
\* uppercase hex digits, never a raw character.
C18_RecoveredDataIsHex ==
    (raid_level \in {"5", "6"} /\ ValidRecover /\ err = "none")
    => \A k \in 1..Len(arg) : \A r \in Rows :
          LET block == disks[arg[k]][r]
          IN StartsWithP(block) \/ StartsWithQ(block) \/ IsTwoHexDigits(block)

----------------------------------------------------------------------------
(* C19 *)

\* the symbols of the last write at the input positions k with k mod num_disks = j,
\* in input order
Raid0SymbolsFor(j) ==
    [k \in 1..CountFor(Len(arg), num_disks, j) |-> Chr(arg[(k - 1) * num_disks + j + 1])]

\* C19: at level 0 a write appends to disk j exactly the input symbols at the
\* positions k with k mod num_disks = j, in input order: no symbol is dropped and no
\* parity or padding block is added.
C19_Raid0Striping ==
    (raid_level = "0" /\ op = "write" /\ err = "none")
    => \A j \in DOMAIN disks : disks[j] = pre[j] \o Raid0SymbolsFor(j)

\* a write of more symbols than disks, on disks of unequal lengths
C19_Witness ==
    /\ raid_level = "0" /\ op = "write" /\ err = "none"
    /\ Len(arg) > num_disks /\ Len(arg) % num_disks # 0
    /\ Len(pre[0]) > Len(pre[1])

----------------------------------------------------------------------------
(* C20 *)

\* C20: gf_mult(a, b) = gf_mult(b, a) for all a, b in 0..255.
C20_GfMultCommutes ==
    gf_pc = "gf_mult" => gf_res = gf_mult(gf_b, gf_a)

\* a product of two different bytes that the loop leaves wider than 8 bits
C20_Witness ==
    gf_pc = "gf_mult" /\ gf_a # gf_b /\ gf_a > 0 /\ gf_b > 0 /\ gf_res > 255

----------------------------------------------------------------------------
(* C21 *)

\* the reference product in GF(2^8) modulo x^8+x^4+x^3+x^2+1: shift and XOR, every
\* intermediate kept to 8 bits
RECURSIVE RefMultLoop(_, _, _, _)
RefMultLoop(a, b, result, rounds) ==
    IF rounds = 0 THEN result
    ELSE LET r2 == IF b % 2 = 1 THEN BitXor(result, a) ELSE result
             a2 == IF a >= 128 THEN BitXor((2 * a) % 256, 29) ELSE 2 * a
         IN RefMultLoop(a2, b \div 2, r2, rounds - 1)

RefMult(a, b) == RefMultLoop(a, b, 0, 8)

\* C21: for all a, b in 0..255, gf_mult(a, b) is a value in 0..255 and equals the
\* product of a and b in GF(2^8) reduced modulo x^8+x^4+x^3+x^2+1.
C21_GfMultIsFieldProduct ==
    gf_pc = "gf_mult" => (gf_res \in 0..255 /\ gf_res = RefMult(gf_a, gf_b))

----------------------------------------------------------------------------
(* C22 *)

\* C22: for every row written at level 6, the stored Q value equals the XOR, over the
\* data symbols of the row (padding excluded), of gf_mult(byte, d + 1) where d is the
\* index of the disk the symbol was placed on, the weighting recovery uses.
C22_QWeightedByDisk ==
    (raid_level = "6" /\ op = "write" /\ err = "none")
    => \A k \in 1..StripeCount(num_disks - 2) :
          LET r == Len(pre[0]) + k
              syms == StripeSymbols(k, num_disks - 2)
              block == disks[(((r - 1) % num_disks) + 1) % num_disks][r]
          IN /\ StartsWithQ(block)
             /\ ParityValue(block)
                   = XorAll([i \in 1..Len(syms) |->
                               gf_mult(syms[i], RowDataDisk(r, i - 1) + 1)])

----------------------------------------------------------------------------
(* C23 *)

\* C23: at level 6, on an array that only write_data has filled, failing exactly one
\* disk and recovering returns normally and reproduces in every row what the disk
\* held: the same P value, the same Q value, the same data byte value.
C23_Raid6SingleRoundTrip ==
    (raid_level = "6" /\ ValidRecover /\ pre_clean /\ Len(arg) = 1)
    => /\ err = "none"
       /\ Restored(arg[1])

----------------------------------------------------------------------------
(* C24 *)

\* the two failed disks of the last request, in increasing order
Failed1 == IF arg[1] <= arg[2] THEN arg[1] ELSE arg[2]
Failed2 == IF arg[1] <= arg[2] THEN arg[2] ELSE arg[1]

\* a request failing two different disks of a level 6 array only written to
DualOnClean ==
    /\ raid_level = "6" /\ ValidRecover /\ pre_clean
    /\ Len(arg) = 2 /\ arg[1] # arg[2]

\* what the dual-failure loop does in row r of the array the request found
DualRow(r) == raid6_dual_row(mark_failed(pre, arg), arg, Failed1, Failed2, r, num_disks)

\* the P slot and the Q slot of row r
PSlot(r) == (r - 1) % num_disks
QSlot(r) == (PSlot(r) + 1) % num_disks

\* the block the dual-failure loop gives disk j in row r
DualBlock(r, j) == IF j = Failed1 THEN DualRow(r).b1 ELSE DualRow(r).b2

\* the data symbols of row r before the request, with their disks
RowDataXor(r) ==
    XorAll([i \in 1..num_disks |->
              IF IsDataPosition(i - 1, r) /\ pre[i - 1][r] # PAD THEN Ord(pre[i - 1][r]) ELSE 0])

\* C24: at level 6 with two failed disks, in every row whose P slot and Q slot are
\* exactly the two failed disks, the wrap-around row (P on the last disk, Q on disk 0)
\* included, recovery raises no error and writes a P block recomputed from the data
\* of the row into the P slot and a Q block into the Q slot.
C24_ParityPairRecomputed ==
    DualOnClean
    => \A r \in 1..Len(pre[0]) :
          {PSlot(r), QSlot(r)} = {arg[1], arg[2]}
          => /\ ~DualRow(r).raises
             /\ StartsWithP(DualBlock(r, PSlot(r)))
             /\ ParityValue(DualBlock(r, PSlot(r))) = RowDataXor(r)
             /\ StartsWithQ(DualBlock(r, QSlot(r)))

----------------------------------------------------------------------------
(* C25 *)

\* the disks of the last request that survive, and the data blocks they hold in row r
Survivors == {j \in 0..(num_disks - 1) : ~InList(j, arg)}
SurvivingData(r) == row_available(mark_failed(pre, arg), Survivors, r)

\* row r loses one parity block (P or Q) and one data block
OneParityOneData(r) ==
    Cardinality({arg[1], arg[2]} \cap {PSlot(r), QSlot(r)}) = 1

\* the failed disk holding the data block of such a row
FailedDataDisk(r) == CHOOSE j \in {arg[1], arg[2]} : j \notin {PSlot(r), QSlot(r)}

\* C25: at level 6 with two failed disks, in every row where one failed block is a
\* parity block (P or Q) and the other a data block, recovery raises no error and the
\* recovered data byte d satisfies the surviving parity equation: d = P xor the
\* surviving data when P survives, gf_mult(d, disk + 1) = Q xor the weighted sum of
\* the surviving data when Q survives.
C25_ParityAndDataRecovered ==
    DualOnClean
    => \A r \in 1..Len(pre[0]) :
          OneParityOneData(r)
          => LET j == FailedDataDisk(r)
                 m == mark_failed(pre, arg)
                 d == DataByte(DualBlock(r, j))
             IN /\ ~DualRow(r).raises
                /\ d # NONE
                /\ PSlot(r) \in Survivors
                      => d = BitXor(row_p_val(m, Survivors, r),
                                    row_sum_known(m, SurvivingData(r), r, num_disks))
                /\ QSlot(r) \in Survivors
                      => gf_mult(d, j + 1)
                            = BitXor(row_q_val(m, Survivors, r),
                                     row_q_sum_known(m, SurvivingData(r), r, num_disks))

----------------------------------------------------------------------------
(* C26 *)

\* row r loses two data blocks
TwoDataFailed(r) == {arg[1], arg[2]} \cap {PSlot(r), QSlot(r)} = {}

\* the determinant of the two-data solver for the failed disks f1 and f2
Determinant(f1, f2) == BitXor(1, gf_mult(f1 + 1, gf_inverse(f2 + 1)))

\* C26: at level 6 with two failed disks, in every row where both failed blocks are
\* data blocks, the recovered bytes d1 and d2 satisfy both parity equations:
\* d1 xor d2 = P xor the surviving data, and gf_mult(d1, f1 + 1) xor
\* gf_mult(d2, f2 + 1) = Q xor the weighted sum of the surviving data; the determinant
\* 1 xor gf_mult(f1 + 1, gf_inverse(f2 + 1)) is nonzero and has an inverse.
C26_TwoDataSolved ==
    DualOnClean
    => \A r \in 1..Len(pre[0]) :
          TwoDataFailed(r)
          => LET m == mark_failed(pre, arg)
                 d1 == DataByte(DualRow(r).b1)
                 d2 == DataByte(DualRow(r).b2)
                 delta == Determinant(Failed1, Failed2)
             IN /\ ~DualRow(r).raises
                /\ d1 # NONE /\ d2 # NONE
                /\ BitXor(d1, d2)
                      = BitXor(row_p_val(m, Survivors, r),
                               row_sum_known(m, SurvivingData(r), r, num_disks))
                /\ BitXor(gf_mult(d1, Failed1 + 1), gf_mult(d2, Failed2 + 1))
                      = BitXor(row_q_val(m, Survivors, r),
                               row_q_sum_known(m, SurvivingData(r), r, num_disks))
                /\ delta # 0
                /\ gf_mult(delta, gf_inverse(delta)) = 1

----------------------------------------------------------------------------
(* C27 *)

\* block is P(HH) or Q(HH) with exactly two uppercase hex digits
IsParityForm(block) ==
    /\ Len(block) = 5
    /\ block[1] \in {80, 81} /\ block[2] = 40 /\ block[5] = 41
    /\ IsHexChar(block[3]) /\ IsHexChar(block[4])

\* C27: every parity block that write_data or a recovery has stored at level 5 or 6
\* has the form P(HH) or Q(HH) with exactly two uppercase hex digits, so its value
\* lies in 0..255.
C27_ParityIsTwoHexDigits ==
    raid_level \in {"5", "6"}
    => \A j \in DOMAIN disks : \A r \in 1..Len(disks[j]) :
          (StartsWithP(disks[j][r]) \/ StartsWithQ(disks[j][r]))
          => /\ IsParityForm(disks[j][r])
             /\ ParityValue(disks[j][r]) \in 0..255

----------------------------------------------------------------------------
(* C28 *)

\* new stands for the bytes old stands for, a two-hex-digit data block read as a byte
SameBytes(old, new) ==
    IF StartsWithP(old) THEN StartsWithP(new) /\ ParityValue(new) = ParityValue(old)
    ELSE IF StartsWithQ(old) THEN StartsWithQ(new) /\ ParityValue(new) = ParityValue(old)
    ELSE IF old = PAD THEN TRUE
    ELSE DataByte(old) # NONE /\ DataByte(new) = DataByte(old)

\* a recovery that returned normally is followed by the failure of one disk
RecoverAfterRecovery ==
    /\ raid_level \in {"5", "6"}
    /\ op = "recover" /\ err = "none"
    /\ op' = "recover" /\ Len(arg') = 1 /\ ~invalid_index(arg', num_disks)

\* C28: at levels 5 and 6, once a recovery has returned normally, the failure of a
\* single disk is recovered again without error and the disk holds the same byte
\* values as before (two-hex-digit blocks read back as bytes).
C28_RecoverAgain ==
    [][RecoverAfterRecovery
       => /\ err' = "none"
          /\ Len(disks'[arg'[1]]) = Len(disks[arg'[1]])
          /\ \A r \in 1..Len(disks[arg'[1]]) :
                SameBytes(disks[arg'[1]][r], disks'[arg'[1]][r])]_vars

----------------------------------------------------------------------------
(* C29 *)

\* C29: a call of simulate_failure_and_recovery, whether it returns or raises, leaves
\* the block sequence of every disk outside the failure set as it was and leaves every
\* disk with the number of blocks it had.
C29_RecoveryFrame ==
    op = "recover"
    => \A j \in DOMAIN disks :
          /\ Len(disks[j]) = Len(pre[j])
          /\ ~InList(j, arg) => disks[j] = pre[j]

\* a recovery returned and rewrote a failed disk next to surviving disks holding blocks
C29_Witness ==
    /\ op = "recover" /\ err = "none"
    /\ \E j \in DOMAIN disks : InList(j, arg) /\ disks[j] # pre[j]
    /\ \E j \in DOMAIN disks : ~InList(j, arg) /\ Len(disks[j]) > 0

----------------------------------------------------------------------------
(* C30 *)

\* the set of indices a request names
IndexSet(f) == {f[k] : k \in 1..Len(f)}

\* C30: the outcome of simulate_failure_and_recovery depends only on the set of
\* failed indices: at every level, a request naming the same indices in another order
\* or with repetitions ends the same way and leaves the same disks.
C30_OutcomeBySet ==
    op = "recover"
    => \A g \in FailInputs(num_disks) :
          IndexSet(g) = IndexSet(arg)
          => simulate_failure_and_recovery(pre, g, num_disks, raid_level)
                = [disks |-> disks, err |-> err]

====
